---- MODULE Spec2Model ----
(***************************************************************************)
(* A model of backend/app/main.py: the browser lifecycle (lifespan), the    *)
(* page scraper (scrape_website), the clone generator (clone_with_llm) and  *)
(* the request handler (clone_website_endpoint).                            *)
(*                                                                          *)
(* Python strings are sequences of one-character strings, so that slicing,  *)
(* startswith/endswith, strip and the substring test are computed as the    *)
(* interpreter computes them.  Optional values carry an isNone flag.        *)
(***************************************************************************)
EXTENDS Integers, Sequences, FiniteSets, TLC

\* ------------------------------------------------------------------ bounds
NumRequests == 2      \* requests that may be in flight together
MaxPieces == 4        \* pieces a model reply is built from (strip harness)

Reqs == 1..NumRequests

\* ----------------------------------------------------------------- strings
Whitespace == {" ", "\n"}

\* the grave accent U+0060, named because the lexer rejects it inside a string
Tick == "U+0060"

\* the literal of line 141
Fence == <<Tick, Tick, Tick>>
\* the literal of line 139
FenceHtml == <<Tick, Tick, Tick, "h", "t", "m", "l">>
\* the literal of lines 148 and 167
Sentinel ==
    << "T", "h", "e", " ", "r", "e", "q", "u", "e", "s", "t", " ",
       "w", "a", "s", " ", "b", "l", "o", "c", "k", "e", "d", " ",
       "b", "y", " ", "t", "h", "e", " ", "c", "o", "n", "t", "e",
       "n", "t", " ", "f", "i", "l", "t", "e", "r", "." >>

\* str.startswith
StartsWith(s, p) ==
    /\ Len(s) >= Len(p)
    /\ SubSeq(s, 1, Len(p)) = p

\* str.endswith
EndsWith(s, p) ==
    /\ Len(s) >= Len(p)
    /\ SubSeq(s, Len(s) - Len(p) + 1, Len(s)) = p

\* the `in` operator on strings
Contains(s, p) ==
    \E i \in 0..(Len(s) - Len(p)) : SubSeq(s, i + 1, i + Len(p)) = p

\* s[n:]
SliceFrom(s, n) == SubSeq(s, n + 1, Len(s))

\* s[:-n]
SliceTo(s, n) == SubSeq(s, 1, Len(s) - n)

RECURSIVE LStrip(_)
LStrip(s) ==
    IF s # <<>> /\ Head(s) \in Whitespace THEN LStrip(Tail(s)) ELSE s

RECURSIVE RStrip(_)
RStrip(s) ==
    IF s # <<>> /\ s[Len(s)] \in Whitespace THEN RStrip(SliceTo(s, 1)) ELSE s

\* str.strip()
StripWS(s) == RStrip(LStrip(s))

\* lines 139-140 with the slice one character short
DropFenceHtmlShort(s) ==
    IF StartsWith(s, FenceHtml) THEN SliceFrom(s, 6) ELSE s

\* lines 139-140
DropFenceHtml(s) ==
    IF StartsWith(s, FenceHtml) THEN SliceFrom(s, 7) ELSE s

\* lines 141-142
DropFenceEnd(s) ==
    IF EndsWith(s, Fence) THEN SliceTo(s, 3) ELSE s

\* lines 138-143: the text clone_with_llm returns for a non-empty reply
PostProcess(content) ==
    StripWS(DropFenceEnd(DropFenceHtml(StripWS(content))))

\* ---------------------------------------------------------------- options
NoneStr == [isNone |-> TRUE, s |-> <<>>]
Some(s) == [isNone |-> FALSE, s |-> s]

\* Python truthiness of an Optional[str]
Truthy(o) == ~o.isNone /\ o.s # <<>>

\* ------------------------------------------------------------------- data
\* base64.b64encode(...).decode('utf-8') of line 68 (RFC 4648 alphabet)
B64Alphabet ==
    <<
       "A", "B", "C", "D", "E", "F", "G", "H", "I", "J", "K", "L", "M",
       "N", "O", "P", "Q", "R", "S", "T", "U", "V", "W", "X", "Y", "Z",
       "a", "b", "c", "d", "e", "f", "g", "h", "i", "j", "k", "l", "m",
       "n", "o", "p", "q", "r", "s", "t", "u", "v", "w", "x", "y", "z",
       "0", "1", "2", "3", "4", "5", "6", "7", "8", "9", "+", "/" >>

RECURSIVE B64(_)
B64(bytes) ==
    IF bytes = <<>> THEN <<>>
    ELSE IF Len(bytes) = 1 THEN
        << B64Alphabet[(bytes[1] \div 4) + 1],
           B64Alphabet[((bytes[1] % 4) * 16) + 1], "=", "=" >>
    ELSE IF Len(bytes) = 2 THEN
        << B64Alphabet[(bytes[1] \div 4) + 1],
           B64Alphabet[((bytes[1] % 4) * 16 + (bytes[2] \div 16)) + 1],
           B64Alphabet[((bytes[2] % 16) * 4) + 1], "=" >>
    ELSE
        << B64Alphabet[(bytes[1] \div 4) + 1],
           B64Alphabet[((bytes[1] % 4) * 16 + (bytes[2] \div 16)) + 1],
           B64Alphabet[((bytes[2] % 16) * 4 + (bytes[3] \div 64)) + 1],
           B64Alphabet[(bytes[3] % 64) + 1] >>
        \o B64(SubSeq(bytes, 4, Len(bytes)))

\* soup.prettify() of line 72: the markup re-serialized, newline-terminated
Prettify(markup) == StripWS(markup) \o <<"\n">>

\* the urls a CloneRequest may carry: empty, malformed, and two sites
SiteA == "https://a.example"
SiteB == "https://b.example"
Urls == {"", "not a url", SiteA, SiteB}

\* page.goto can only succeed for a well-formed url of a reachable site
CanLoad(u) == u \in {SiteA, SiteB}

\* what the browser engine renders for a site: page.content()
Dom(u) == IF u = SiteA THEN <<"<", "a", ">">> ELSE <<"<", "b", ">">>

\* what the browser engine renders for a site: page.screenshot(full_page=True)
Pixels(u) == IF u = SiteA THEN <<137, 80>> ELSE <<137, 78>>

\* Optional[Dict]: None, or {"html": ..., "screenshot": ...}
NoData == [isNone |-> TRUE, html |-> <<>>, screenshot |-> <<>>]
Data(h, s) == [isNone |-> FALSE, html |-> h, screenshot |-> s]

\* os.getenv("OPENAI_API_KEY"): unset, set to the empty string, or set
ApiKeys == {NoneStr, Some(<<>>), Some(<<"k">>)}

\* the replies the generation service may give: message.content ...
Markup == <<"<", "p", ">">>
ReplyContents ==
    { NoneStr,
      Some(<<>>),
      Some(Markup),
      Some(<<" ">>),
      Some(FenceHtml \o Fence),
      Some(FenceHtml \o <<"\n">> \o Markup \o <<"\n">> \o Fence),
      Some(Sentinel) }

\* ... and choices[0].finish_reason
FinishReasons == {"stop", "content_filter"}

\* the outcomes of client.chat.completions.create: an exception, a response
\* with no choices, or a response whose first choice has a content and a reason
NoReply == [kind |-> "none", content |-> NoneStr, finish |-> ""]
ServiceOutcomes ==
    { [kind |-> "raise", content |-> NoneStr, finish |-> ""],
      [kind |-> "nochoices", content |-> NoneStr, finish |-> ""] }
    \cup { [kind |-> "choice", content |-> c, finish |-> f] :
              c \in ReplyContents, f \in FinishReasons }

\* ------------------------------------------------------------- responses
NoResponse == [status |-> 0, detail |-> "", html_content |-> <<>>]
\* line 162
ScrapeFailedResponse ==
    [status |-> 500, detail |-> "Failed to scrape the target website.",
     html_content |-> <<>>]
\* line 166
GenerationFailedResponse ==
    [status |-> 500, detail |-> "AI model failed to generate the HTML content.",
     html_content |-> <<>>]
\* line 168
ContentFilterResponse ==
    [status |-> 400,
     detail |-> "AI content filter blocked the request. Try a different URL.",
     html_content |-> <<>>]
\* line 170
OkResponse(h) == [status |-> 200, detail |-> "", html_content |-> h]
\* an exception that leaves the endpoint: the framework's plain 500
UncaughtResponse ==
    [status |-> 500, detail |-> "Internal Server Error", html_content |-> <<>>]

\* ------------------------------------------------------------------ state
VARIABLES
    phase,             \* the service lifecycle: "init", "running", "stopped", "failed"
    playwright_state,  \* the module-level dict of line 18 (its "browser" key)
    browser,           \* the browser process: launches, whether open, closes
    apiKey,            \* the OPENAI_API_KEY environment variable
    task,              \* per request: the handler's position, locals and history
    pages,             \* per scrape call: the page browser.new_page() gave it
    strip              \* harness applying the reply post-processing on its own

vars == <<phase, playwright_state, browser, apiKey, task, pages, strip>>

IdleTask ==
    [pc |-> "idle", url |-> "", html_content |-> <<>>, ret |-> NoData,
     scrape |-> "pending", scraped_data |-> NoData,
     genCalls |-> 0, genArgs |-> NoData, svcCalls |-> 0, reply |-> NoReply,
     generated_html |-> NoneStr, response |-> NoResponse]

NoPage == [state |-> "none", closes |-> 0]

StripOff == [stage |-> "off", reply |-> <<>>, once |-> <<>>, twice |-> <<>>]

Init ==
    /\ phase = "init"
    /\ playwright_state = [present |-> FALSE, browser |-> 0]
    /\ browser = [launches |-> 0, open |-> FALSE, closes |-> 0]
    /\ apiKey \in ApiKeys
    /\ task = [r \in Reqs |-> IdleTask]
    /\ pages = [r \in Reqs |-> NoPage]
    /\ strip = StripOff

InFlight(r) == task[r].pc \notin {"idle", "done"}

\* ------------------------------------------------------- pure handler code
\* line 161: if scraped_data is None  -- with the test left out
ScrapeFailedNever(d) == d.isNone /\ FALSE

\* line 161: if scraped_data is None
ScrapeFailed(d) == d.isNone

\* line 86: if not api_key  -- with the test left out
KeyAbsentNever(k) == ~Truthy(k) /\ FALSE

\* line 86: if not api_key
KeyAbsent(k) == ~Truthy(k)

\* line 79: if not page.is_closed()  -- with the test left out
PageNeedsCloseAlways(pg) == pg.state \in {"open", "closed"}

\* line 79: if not page.is_closed()
PageNeedsClose(pg) == pg.state = "open"

\* line 164 with the scrape result parked in a module-level slot that the
\* latest scrape of any request overwrites
GeneratorArgsShared(r, d) ==
    LET others == {q \in Reqs : q # r /\ ~task[q].scraped_data.isNone}
    IN  IF others = {} THEN d ELSE task[CHOOSE q \in others : TRUE].scraped_data

\* line 164: clone_with_llm(scraped_data), read at lines 91-92
GeneratorArgs(r, d) == d

\* lines 145-149 without the content_filter case
EmptyReplyResultPlain(reason) == IF reason = "" THEN NoneStr ELSE NoneStr

\* lines 145-149: the value returned for an empty reply, by its finish reason
EmptyReplyResult(reason) ==
    IF reason = "content_filter" THEN Some(Sentinel) ELSE NoneStr

\* lines 137-153: the value clone_with_llm returns for a service outcome
LlmResult(o) ==
    IF o.kind = "raise" THEN NoneStr
    ELSE IF o.kind = "choice" /\ Truthy(o.content)
         THEN Some(PostProcess(o.content.s))
         ELSE EmptyReplyResult(IF o.kind = "choice" THEN o.finish
                               ELSE "No choices returned")

\* lines 165-170: the endpoint's response for the generator's return value
EndpointResponse(g) ==
    IF g.isNone THEN GenerationFailedResponse
    ELSE IF Contains(g.s, Sentinel) THEN ContentFilterResponse
    ELSE OkResponse(g.s)

\* lines 160-166 and 84-128: scrape_website has returned d to the endpoint,
\* which runs on to its response or to the await of the generation call
AfterScrape(r, t, d) ==
    LET t1 == [t EXCEPT !.scrape = IF d.isNone THEN "failure" ELSE "result",
                        !.scraped_data = d]
    IN  IF ScrapeFailed(d)
        THEN [t1 EXCEPT !.pc = "done", !.response = ScrapeFailedResponse]
        ELSE LET t2 == [t1 EXCEPT !.genCalls = @ + 1,
                                  !.genArgs = GeneratorArgs(r, d)]
             IN  \* RuntimeError of line 87, or a TypeError at line 91 on a
                 \* None argument: both are caught at line 151
                 IF KeyAbsent(apiKey) \/ t2.genArgs.isNone
                 THEN [t2 EXCEPT !.pc = "done",
                                 !.generated_html = NoneStr,
                                 !.response = EndpointResponse(NoneStr)]
                 ELSE [t2 EXCEPT !.pc = "generate", !.svcCalls = @ + 1]

\* lines 75-80: the try block has settled on retval (None after an except);
\* the finally clause closes the page unless it is closed already
Finally(r, t, pg, retval) ==
    IF PageNeedsClose(pg)
    THEN [t EXCEPT !.pc = "closing", !.ret = retval]
    ELSE AfterScrape(r, t, retval)

\* an exception leaves scrape_website and the endpoint
Escaped(t) ==
    [t EXCEPT !.pc = "done", !.scrape = "raised", !.response = UncaughtResponse]

\* the page after an engine fault: still open, or closed under the call
PageAfterFault(pg, targetClosed) ==
    IF targetClosed /\ pg.state = "open"
    THEN [state |-> "closed", closes |-> pg.closes + 1]
    ELSE pg

\* ---------------------------------------------------------------- actions
\* lines 26-30: startup launches the browser and stores the handle; a launch
\* that raises ends startup and the service never serves
lifespan_startup ==
    /\ phase = "init"
    /\ \E ok \in BOOLEAN :
          IF ok
          THEN /\ browser' = [browser EXCEPT !.launches = @ + 1, !.open = TRUE]
               /\ playwright_state' =
                     [present |-> TRUE, browser |-> browser.launches + 1]
               /\ phase' = "running"
          ELSE /\ phase' = "failed"
               /\ UNCHANGED <<browser, playwright_state>>
    /\ UNCHANGED <<apiKey, task, pages, strip>>

\* lines 31-32: shutdown closes the browser. The server runs it after the
\* requests in flight have drained.
lifespan_shutdown ==
    /\ phase = "running"
    /\ \A r \in Reqs : ~InFlight(r)
    /\ browser' = [browser EXCEPT !.open = FALSE, !.closes = @ + 1]
    /\ phase' = "stopped"
    /\ UNCHANGED <<playwright_state, apiKey, task, pages, strip>>

\* lines 159-160 and 54-59: a request arrives; scrape_website reads the shared
\* handle and either returns None (no browser) or awaits browser.new_page().
\* Before startup the dict is empty: that is the state of an application
\* served without its lifespan, or of scrape_website called on its own.
clone_website_endpoint(r) ==
    /\ task[r].pc = "idle"
    /\ phase \in {"init", "running"}
    /\ \E u \in Urls :
          LET t == [task[r] EXCEPT !.url = u]
          IN  task' = [task EXCEPT ![r] =
                  IF ~playwright_state.present
                  THEN AfterScrape(r, t, NoData)
                  ELSE [t EXCEPT !.pc = "new_page"]]
    /\ UNCHANGED <<phase, playwright_state, browser, apiKey, pages, strip>>

\* line 59: browser.new_page() resolves with a fresh page, or raises; the
\* call stands outside the try block, so the exception leaves the function
scrape_new_page(r) ==
    /\ task[r].pc = "new_page"
    /\ \E ok \in BOOLEAN :
          IF ok
          THEN /\ browser.open
               /\ pages' = [pages EXCEPT ![r] = [state |-> "open", closes |-> 0]]
               /\ task' = [task EXCEPT ![r].pc = "goto"]
          ELSE /\ task' = [task EXCEPT ![r] = Escaped(task[r])]
               /\ UNCHANGED pages
    /\ UNCHANGED <<phase, playwright_state, browser, apiKey, strip>>

\* line 62: page.goto resolves, or raises (invalid url, unreachable site,
\* timeout, page closed under the call) into lines 75-80
scrape_goto(r) ==
    /\ task[r].pc = "goto"
    /\ \E ok \in BOOLEAN, targetClosed \in BOOLEAN :
          IF ok
          THEN /\ CanLoad(task[r].url)
               /\ pages[r].state = "open"
               /\ ~targetClosed
               /\ task' = [task EXCEPT ![r].pc = "content"]
               /\ UNCHANGED pages
          ELSE LET pg == PageAfterFault(pages[r], targetClosed)
               IN  /\ pages' = [pages EXCEPT ![r] = pg]
                   /\ task' = [task EXCEPT ![r] = Finally(r, task[r], pg, NoData)]
    /\ UNCHANGED <<phase, playwright_state, browser, apiKey, strip>>

\* line 64: page.content() resolves with the serialized DOM, or raises
scrape_content(r) ==
    /\ task[r].pc = "content"
    /\ \E ok \in BOOLEAN, targetClosed \in BOOLEAN :
          IF ok
          THEN /\ pages[r].state = "open"
               /\ ~targetClosed
               /\ task' = [task EXCEPT ![r].pc = "screenshot",
                                       ![r].html_content = Dom(task[r].url)]
               /\ UNCHANGED pages
          ELSE LET pg == PageAfterFault(pages[r], targetClosed)
               IN  /\ pages' = [pages EXCEPT ![r] = pg]
                   /\ task' = [task EXCEPT ![r] = Finally(r, task[r], pg, NoData)]
    /\ UNCHANGED <<phase, playwright_state, browser, apiKey, strip>>

\* lines 65-74: page.screenshot() resolves and the result dict is built, or
\* the call raises; either way the finally clause runs next
scrape_screenshot(r) ==
    /\ task[r].pc = "screenshot"
    /\ \E ok \in BOOLEAN, targetClosed \in BOOLEAN :
          IF ok
          THEN /\ pages[r].state = "open"
               /\ ~targetClosed
               /\ task' = [task EXCEPT ![r] =
                     Finally(r, task[r], pages[r],
                             Data(Prettify(task[r].html_content),
                                  B64(Pixels(task[r].url))))]
               /\ UNCHANGED pages
          ELSE LET pg == PageAfterFault(pages[r], targetClosed)
               IN  /\ pages' = [pages EXCEPT ![r] = pg]
                   /\ task' = [task EXCEPT ![r] = Finally(r, task[r], pg, NoData)]
    /\ UNCHANGED <<phase, playwright_state, browser, apiKey, strip>>

\* line 80 closing the shared browser where the page was meant
scrape_close_browser(r) ==
    /\ task[r].pc = "closing"
    /\ pages' = [pages EXCEPT ![r] =
          [state |-> "closed", closes |-> pages[r].closes + 1]]
    /\ browser' = [browser EXCEPT !.open = FALSE, !.closes = @ + 1]
    /\ task' = [task EXCEPT ![r] = AfterScrape(r, task[r], task[r].ret)]
    /\ UNCHANGED <<phase, playwright_state, apiKey, strip>>

\* line 80: page.close() resolves and scrape_website returns the value the
\* try block settled on; or it raises inside the finally clause, the
\* exception replaces that value, and the page is closed or still open
scrape_close(r) ==
    /\ task[r].pc = "closing"
    /\ \E ok \in BOOLEAN, left \in {"open", "closed"} :
          IF ok
          THEN /\ left = "closed"
               /\ pages' = [pages EXCEPT ![r] =
                     [state |-> "closed", closes |-> pages[r].closes + 1]]
               /\ task' = [task EXCEPT ![r] = AfterScrape(r, task[r], task[r].ret)]
          ELSE /\ pages' = [pages EXCEPT ![r] =
                     IF left = "closed"
                     THEN [state |-> "closed", closes |-> pages[r].closes + 1]
                     ELSE pages[r]]
               /\ task' = [task EXCEPT ![r] = Escaped(task[r])]
    /\ UNCHANGED <<phase, playwright_state, browser, apiKey, strip>>

\* lines 128-153 and 165-170: the generation call resolves (or raises);
\* clone_with_llm post-processes the reply and the endpoint responds
clone_with_llm(r) ==
    /\ task[r].pc = "generate"
    /\ \E o \in ServiceOutcomes :
          LET g == LlmResult(o)
          IN  task' = [task EXCEPT ![r].pc = "done",
                                   ![r].reply = o,
                                   ![r].generated_html = g,
                                   ![r].response = EndpointResponse(g)]
    /\ UNCHANGED <<phase, playwright_state, browser, apiKey, pages, strip>>

Next ==
    \/ lifespan_startup
    \/ lifespan_shutdown
    \/ \E r \in Reqs : clone_website_endpoint(r)
    \/ \E r \in Reqs : scrape_new_page(r)
    \/ \E r \in Reqs : scrape_goto(r)
    \/ \E r \in Reqs : scrape_content(r)
    \/ \E r \in Reqs : scrape_screenshot(r)
    \/ \E r \in Reqs : scrape_close(r)
    \/ \E r \in Reqs : clone_with_llm(r)

Spec == Init /\ [][Next]_vars

\* ------------------------------------------- the post-processing on its own
\* the pieces model replies are put together from
Pieces ==
    { FenceHtml, Fence, <<Tick>>, <<"h", "t", "m", "l">>, Markup,
      <<" ">>, <<"\n">> }

RECURSIVE Concats(_)
Concats(n) ==
    IF n = 0 THEN {<<>>}
    ELSE LET shorter == Concats(n - 1)
         IN  shorter \cup {p \o s : p \in Pieces, s \in shorter}

\* line 137 lets only a non-empty content through to lines 138-143
StripInputs == Concats(MaxPieces) \ {<<>>}

InitStrip ==
    /\ phase = "init"
    /\ playwright_state = [present |-> FALSE, browser |-> 0]
    /\ browser = [launches |-> 0, open |-> FALSE, closes |-> 0]
    /\ apiKey = NoneStr
    /\ task = [r \in Reqs |-> IdleTask]
    /\ pages = [r \in Reqs |-> NoPage]
    /\ strip \in {[stage |-> "reply", reply |-> x, once |-> <<>>, twice |-> <<>>] :
                    x \in StripInputs}

\* lines 138-143 applied to a reply
strip_once ==
    /\ strip.stage = "reply"
    /\ strip' = [strip EXCEPT !.stage = "once", !.once = PostProcess(strip.reply)]
    /\ UNCHANGED <<phase, playwright_state, browser, apiKey, task, pages>>

\* lines 138-143 applied to their own output
strip_twice ==
    /\ strip.stage = "once"
    /\ strip' = [strip EXCEPT !.stage = "twice", !.twice = PostProcess(strip.once)]
    /\ UNCHANGED <<phase, playwright_state, browser, apiKey, task, pages>>

NextStrip == strip_once \/ strip_twice

StripSpec == InitStrip /\ [][NextStrip]_vars

\* ------------------------------------------------------------ properties
Done(r) == task[r].pc = "done"

\* the service answered with an empty message content
EmptyReply(o) ==
    /\ o.kind = "choice"
    /\ (o.content.isNone \/ o.content.s = <<>>)

\* s without its leading and trailing whitespace, by positions
TrimOf(s) ==
    LET keep == {i \in 1..Len(s) : s[i] \notin Whitespace}
    IN  IF keep = {} THEN <<>>
        ELSE SubSeq(s, CHOOSE i \in keep : \A j \in keep : i <= j,
                       CHOOSE i \in keep : \A j \in keep : i >= j)

\* a reply that begins with the opening marker and ends with the closing one
Wrapped(s) ==
    /\ Len(s) >= Len(FenceHtml) + Len(Fence)
    /\ StartsWith(s, FenceHtml)
    /\ EndsWith(s, Fence)

\* the text between the two markers of a wrapped reply
Inner(s) == SubSeq(s, Len(FenceHtml) + 1, Len(s) - Len(Fence))

\* C1: whenever a request's scrape returned Failure (None), the request has
\* been answered with status 500 and detail "Failed to scrape the target
\* website.", and neither the generator nor the generation service was
\* invoked for it.
C1_ScrapeFailureSkipsGenerator ==
    \A r \in Reqs :
        task[r].scrape = "failure" =>
            /\ Done(r)
            /\ task[r].response = ScrapeFailedResponse
            /\ task[r].genCalls = 0
            /\ task[r].svcCalls = 0

\* C1 witness: a request whose navigation failed on an opened page has been
\* answered with the scrape-failure response
C1_Witness ==
    \E r \in Reqs :
        /\ task[r].scrape = "failure"
        /\ pages[r].state = "closed"
        /\ task[r].response = ScrapeFailedResponse
        /\ task[r].genCalls = 0

\* C2: with scrape calls interleaved, no page is ever closed twice, and once
\* a call that opened a page has returned (a result, or None after a
\* navigation, content or screenshot error) its page is closed and was closed
\* exactly once.
C2_PageClosedExactlyOnce ==
    \A r \in Reqs :
        /\ pages[r].closes <= 1
        /\ (pages[r].state = "none" => pages[r].closes = 0)
        /\ (task[r].scrape \in {"result", "failure"} /\ pages[r].state # "none"
              => pages[r].state = "closed" /\ pages[r].closes = 1)

\* C2 witness: one call has returned a result and another has returned None
\* after its page was closed under it, each page closed once, while the two
\* requests were open together
C2_Witness ==
    \E r1, r2 \in Reqs :
        /\ r1 # r2
        /\ task[r1].scrape = "result"
        /\ task[r1].pc = "generate"
        /\ pages[r1].state = "closed" /\ pages[r1].closes = 1
        /\ task[r2].scrape = "failure"
        /\ pages[r2].state = "closed" /\ pages[r2].closes = 1

\* C3: a request whose scrape succeeded and whose generation call returned an
\* empty content with finish reason content_filter is answered with status
\* 400 and the content-filter detail, not with the generic 500.
C3_ContentFilterIs400 ==
    \A r \in Reqs :
        Done(r) /\ task[r].scrape = "result" /\ EmptyReply(task[r].reply)
                /\ task[r].reply.finish = "content_filter"
            => task[r].response = ContentFilterResponse

\* C3 witness: such a request has been answered
C3_Witness ==
    \E r \in Reqs :
        /\ Done(r)
        /\ task[r].scrape = "result"
        /\ EmptyReply(task[r].reply)
        /\ task[r].reply.finish = "content_filter"
        /\ task[r].response.status = 400

\* C4 (as claimed): a request whose generator returned empty content (None or
\* the empty string) is answered with the generation-failure response, and no
\* request is answered 200 with an empty html_content.
C4_EmptyContentIsFailure ==
    \A r \in Reqs :
        Done(r) /\ task[r].genCalls > 0 =>
            /\ (task[r].generated_html.isNone \/ task[r].generated_html.s = <<>>
                  => task[r].response = GenerationFailedResponse)
            /\ (task[r].response.status = 200
                  => task[r].response.html_content # <<>>)

\* C5 (as claimed): a reply without fence markers is returned unchanged, a
\* wrapped reply is returned as exactly its inner text, and post-processing
\* the returned text again changes nothing.
C5_StripIdempotent ==
    strip.stage = "twice" =>
        /\ (~Contains(strip.reply, Fence) => strip.once = strip.reply)
        /\ (Wrapped(strip.reply) => strip.once = Inner(strip.reply))
        /\ strip.twice = strip.once

\* C5 (amended): a reply without fence markers is returned with its leading
\* and trailing whitespace removed; a reply that begins with the opening
\* marker and ends with the closing marker is returned as its inner text with
\* leading and trailing whitespace removed; and post-processing the returned
\* text again leaves it unchanged exactly when it neither begins with the
\* opening marker nor ends with the closing marker.
C5_StripAmended ==
    strip.stage = "twice" =>
        /\ (~Contains(strip.reply, Fence) => strip.once = TrimOf(strip.reply))
        /\ (Wrapped(strip.reply) => strip.once = TrimOf(Inner(strip.reply)))
        /\ (strip.twice = strip.once
              <=> ~StartsWith(strip.once, FenceHtml) /\ ~EndsWith(strip.once, Fence))

\* C5 witness: a wrapped reply whose inner text carries whitespace around the
\* markup has been post-processed twice
C5_Witness ==
    /\ strip.stage = "twice"
    /\ Wrapped(strip.reply)
    /\ Inner(strip.reply) # Markup
    /\ strip.once = Markup
    /\ strip.twice = Markup

\* C6 (as claimed): a scrape call that did not produce a result ended by
\* returning None, and its request is answered with the scrape-failure
\* response; no fault leaves scrape_website as an exception.
C6_ScrapeNeverRaises ==
    \A r \in Reqs :
        Done(r) /\ task[r].scrape # "result" =>
            /\ task[r].scrape = "failure"
            /\ task[r].response = ScrapeFailedResponse

\* C7: with OPENAI_API_KEY unset or empty, a request that reached the
\* generator has been answered with the generation-failure response, the
\* generator returned None, no call went to the generation service, and
\* every request not yet received can still be received while the service
\* runs.
C7_MissingKeyIsFailure ==
    (apiKey.isNone \/ apiKey.s = <<>>) =>
        \A r \in Reqs :
            /\ task[r].svcCalls = 0
            /\ (task[r].genCalls > 0 =>
                  /\ Done(r)
                  /\ task[r].generated_html = NoneStr
                  /\ task[r].response = GenerationFailedResponse
                  /\ \A q \in Reqs :
                        phase = "running" /\ task[q].pc = "idle"
                            => ENABLED clone_website_endpoint(q))

\* C7 witness: without a key, one request got the generation-failure
\* response and a later one was served up to the same response
C7_Witness ==
    /\ apiKey.isNone
    /\ phase = "running"
    /\ \A r \in Reqs :
          /\ Done(r)
          /\ task[r].scrape = "result"
          /\ task[r].genCalls = 1
          /\ task[r].response = GenerationFailedResponse

\* C8: a request's generator is invoked at most once; it is invoked exactly
\* once when the request's scrape returned a result, and then with exactly the
\* html and screenshot that scrape returned for the request's own url.
C8_GeneratorGetsOwnScrape ==
    \A r \in Reqs :
        /\ task[r].genCalls <= 1
        /\ (task[r].scrape # "result" => task[r].genCalls = 0)
        /\ (task[r].scrape = "result" =>
              /\ task[r].genCalls = 1
              /\ task[r].genArgs = task[r].ret
              /\ task[r].genArgs =
                    Data(Prettify(Dom(task[r].url)), B64(Pixels(task[r].url))))

\* C8 witness: two requests for different sites are both waiting on their
\* generation call
C8_Witness ==
    \E r1, r2 \in Reqs :
        /\ task[r1].pc = "generate" /\ task[r1].url = SiteA
        /\ task[r2].pc = "generate" /\ task[r2].url = SiteB
        /\ task[r1].genArgs # task[r2].genArgs

\* C9: the browser is launched at most once and closed at most once; while
\* the service runs it has been launched once, is open and is stored; once the
\* service has stopped it has been launched once and closed once; and every
\* step that changes the browser or the stored handle is a lifecycle step
\* (it changes the phase), so no step of a request touches them.
C9_SessionOwnedByLifecycle ==
    [][ /\ browser'.launches <= 1
        /\ browser'.closes <= 1
        /\ (phase' = "running" =>
              /\ browser' = [launches |-> 1, open |-> TRUE, closes |-> 0]
              /\ playwright_state' = [present |-> TRUE, browser |-> 1])
        /\ (phase' = "stopped" =>
              /\ browser' = [launches |-> 1, open |-> FALSE, closes |-> 1]
              /\ playwright_state' = [present |-> TRUE, browser |-> 1])
        /\ (<<browser, playwright_state>>' # <<browser, playwright_state>>
              => phase' # phase /\ task' = task /\ pages' = pages)
      ]_vars

\* C9 witness: the service has stopped after serving every request, with
\* scrapes that succeeded and scrapes that failed
C9_Witness ==
    /\ phase = "stopped"
    /\ browser.launches = 1 /\ browser.closes = 1
    /\ \A r \in Reqs : Done(r)
    /\ \E r \in Reqs : task[r].scrape = "result"
    /\ \E r \in Reqs : task[r].scrape = "failure" /\ pages[r].state = "closed"

\* C10 (as claimed): a request is answered with the content-filter response
\* only if the service returned an empty content with finish reason
\* content_filter, and a request whose service reply had a non-empty content
\* is answered 200 with the post-processed content.
C10_FilterOnlyOnSignal ==
    \A r \in Reqs :
        Done(r) /\ task[r].reply.kind # "none" =>
            /\ (task[r].response = ContentFilterResponse =>
                  EmptyReply(task[r].reply)
                  /\ task[r].reply.finish = "content_filter")
            /\ (task[r].reply.kind = "choice" /\ Truthy(task[r].reply.content)
                  => task[r].response =
                        OkResponse(PostProcess(task[r].reply.content.s)))

====
